---- MODULE Spec2Model ----
(***************************************************************************)
(* MCPBridge of src/src/bot/discord-bot.js (lines 209-482): the endpoint   *)
(* registry `servers`, the `connections` map, the `stats` object, the      *)
(* WebSocket transports created by connectToServer, and the two interval   *)
(* timers started by startPeriodicTasks.                                   *)
(*                                                                         *)
(* Granularity.  Node runs one callback at a time.  initialize() and       *)
(* pingServers() are async functions, but every promise they await         *)
(* (connectToServer, sendMessage) is already settled when awaited, so      *)
(* their continuations run from the microtask queue before any timer or    *)
(* socket callback: each is one action.  Transport events ('open',         *)
(* 'message', 'error', 'close') and the timer callbacks are separate       *)
(* actions that interleave freely with the facade calls.                   *)
(***************************************************************************)
EXTENDS Integers, Sequences, FiniteSets, Bags, TLC

\* ------------------------------------------------------------ bounds
MaxInit == 2          \* calls of initialize()
MaxSockets == 2       \* WebSocket objects constructed
MaxProcessed == 1     \* cap on stats.messagesProcessed
MaxIssued == 2        \* sendMessage calls counted per endpoint
MaxBotMessages == 4   \* cap on the bot's stats.messagesProcessed
MaxBotCommands == 2   \* cap on the bot's stats.commandsExecuted
MaxLogins == 2        \* calls of client.login
MaxDestroys == 2      \* calls of client.destroy
MaxGuilds == 1        \* readyClient.guilds.cache.size: 0..MaxGuilds
MaxTime == 1          \* values new Date() takes: 0..MaxTime
MaxClients == 3       \* sockets of web clients that connect

\* ------------------------------------------------------------ registry
\* Keys of this.servers in insertion order (Map iteration order).  The map is
\* a public field; the model registers the first two of the default ids.
ServerOrder == <<"demo-server", "ai-assistant">>

Servers == {ServerOrder[i] : i \in 1..Len(ServerOrder)}

\* server.status: 'simulated' takes the demo branch of connectToServer, any
\* other value the WebSocket branch.  urlOk: whether `new WebSocket(server.url)`
\* accepts the url (it throws synchronously on an invalid one).
ServerConfigs ==
    { [status |-> "simulated", urlOk |-> TRUE],
      [status |-> "live", urlOk |-> TRUE],
      [status |-> "live", urlOk |-> FALSE] }

\* An id no endpoint is registered under.
MissingId == "missing-id"

CallIds == Servers \cup {MissingId}

\* Method names that are properties every object literal inherits from
\* Object.prototype.
InheritedKeys == {"toString"}

\* message.method values; "ping" is also what pingServers sends and stands for
\* the method names that are no property of the response table at all.
Methods == {"tools/list", "tools/call", "resources/list", "ping"} \cup InheritedKeys

NoName == "unknown"

\* message.params?.name
ToolNames == {"calculate", NoName}

Messages ==
    { [method |-> m, name |-> NoName] : m \in Methods }
    \cup { [method |-> "tools/call", name |-> "calculate"] }

\* The messages the callers of the lifecycle specification send.
CallMessages == { m \in Messages : m.method \in {"resources/list", "ping"} }

VARIABLES
    servers,        \* this.servers: id -> server config
    connections,    \* this.connections: Map id -> connection record
    sockets,        \* the WebSocket objects constructed so far (a bag)
    stats,          \* this.stats
    timers,         \* pairs of setInterval timers running
    isInitialized,  \* this.isInitialized
    closed,         \* close() has returned and initialize() has not run since
    lastOp,         \* the last call or callback and its outcome
    wire,           \* frames written to transports by the last step
    emitted,        \* events emitted by the last step
    issued,         \* id -> sendMessage calls made on it, where they are counted
    bot,            \* the DiscordBot object of the server
    web,            \* the WebController: connectedClients and the sockets of socket.io
    server,         \* DiscordEXServer.initializeComponents(): how far it got
    db              \* the DatabaseManager and the configurations table of its file

vars == <<servers, connections, sockets, stats, timers, isInitialized,
          closed, lastOp, wire, emitted, issued, bot, web, server, db>>

\* What the bridge and the bot leave alone.
platform == <<web, server, db>>

NoResult == [kind |-> "none", items |-> <<>>]

\* What lastOp records: the call or callback, its target id and method, the
\* error thrown ("" for none), the value returned, and for initialize() the
\* ids a connect was attempted on and whether it threw, for pingServers() the
\* ids pinged, those whose ping threw, and whether the loop was left early,
\* for close() the ids whose ws.close() it called and whether the call right
\* before it was close() too, for the web callers of sendMessage the ids
\* sendMessage was called with and whether logActivity failed.
Op(name, id, error, result) ==
    [op |-> name, id |-> id, method |-> "", error |-> error, result |-> result,
     attempted |-> {}, failed |-> {}, threw |-> FALSE, repeat |-> FALSE]

HasConnection(id) == id \in DOMAIN connections

IsConnected(id) == HasConnection(id) /\ connections[id].status = "connected"

\* ------------------------------------------------------------ transports
\* A WebSocket made by connectToServer(id, ..): its handlers are bound to id;
\* state follows the library's readyState ("errored": 'error' was emitted and
\* 'close' is still to come); attached: it is the ws of connections.get(id).
Socket(id, state, attached) == [id |-> id, state |-> state, attached |-> attached]

One(sock) == SetToBag({sock})

Sockets == BagToSet(sockets)

SocketsOf(id) == {sock \in Sockets : sock.id = id}

Replace(bag, old, new) == (bag (-) One(old)) (+) One(new)

RECURSIVE Detach(_, _)
\* The sockets once no connection record refers to a socket of the ids.
Detach(bag, ids) ==
    IF \E sock \in BagToSet(bag) : sock.id \in ids /\ sock.attached
    THEN LET sock == CHOOSE x \in BagToSet(bag) : x.id \in ids /\ x.attached
         IN  Detach(Replace(bag, sock, [sock EXCEPT !.attached = FALSE]), ids)
    ELSE bag

\* ------------------------------------------------------------ connect
RECURSIVE MaxOf(_)
MaxOf(S) ==
    IF S = {}
    THEN 0
    ELSE LET x == CHOOSE y \in S : TRUE
             m == MaxOf(S \ {x})
         IN  IF x > m THEN x ELSE m

\* new Date(): the clock never runs backwards, so a reading is no earlier than
\* any timestamp the bridge holds.
Clock == MaxOf({stats.lastActivity} \cup {connections[id].lastPing : id \in DOMAIN connections}) .. MaxTime

\* The record connectToServer stores; ws: whether it has a ws property.
ConnectionRecord(ws, now) ==
    [status |-> "connected", ws |-> ws, lastPing |-> now, messageCount |-> 0]

Note(kind, id) == [event |-> kind, id |-> id]

\* connectToServer(id, server) run on the bridge fields b = [connections,
\* sockets, emitted]; ok = FALSE is the thrown 'Failed to connect' error.
connectToServer(id, b, now) ==
    IF servers[id].status = "simulated"
    THEN [ok |-> TRUE,
          connections |-> (id :> ConnectionRecord(FALSE, now)) @@ b.connections,
          sockets |-> Detach(b.sockets, {id}),
          emitted |-> Append(b.emitted, Note("server-connected", id))]
    ELSE IF servers[id].urlOk
    THEN [ok |-> TRUE,
          connections |-> b.connections,
          sockets |-> b.sockets (+) One(Socket(id, "connecting", FALSE)),
          emitted |-> b.emitted]
    ELSE [ok |-> FALSE,
          connections |-> b.connections,
          sockets |-> b.sockets,
          emitted |-> b.emitted]

\* InitializeStep with the try/catch around the connect left out.
InitializeStepNoCatch(id, b, now) ==
    LET r == connectToServer(id, b, now)
    IN  [connections |-> r.connections,
         sockets |-> r.sockets,
         emitted |-> r.emitted,
         totalConnections |-> IF r.ok THEN b.totalConnections + 1 ELSE b.totalConnections,
         activeConnections |-> IF r.ok THEN b.activeConnections + 1 ELSE b.activeConnections,
         attempted |-> b.attempted \cup {id},
         threw |-> ~r.ok]

\* One iteration of the for-loop of initialize(): the connect, then the two
\* counters when it returned, or the warning when it threw.
InitializeStep(id, b, now) ==
    LET r == connectToServer(id, b, now)
    IN  [connections |-> r.connections,
         sockets |-> r.sockets,
         emitted |-> r.emitted,
         totalConnections |-> IF r.ok THEN b.totalConnections + 1 ELSE b.totalConnections,
         activeConnections |-> IF r.ok THEN b.activeConnections + 1 ELSE b.activeConnections,
         attempted |-> b.attempted \cup {id},
         threw |-> FALSE]

RECURSIVE InitializeLoop(_, _, _)
\* The for-loop of initialize() from the i-th server on; it stops where an
\* iteration lets an error out.
InitializeLoop(i, b, now) ==
    IF i > Len(ServerOrder) \/ b.threw
    THEN b
    ELSE InitializeLoop(i + 1, InitializeStep(ServerOrder[i], b, now), now)

\* Sockets the loop of initialize() will construct.
NewSockets == Cardinality({id \in Servers : servers[id].status # "simulated" /\ servers[id].urlOk})

\* startPeriodicTasks(): two more setInterval timers.
startPeriodicTasks == timers + 1

Initialize(now) ==
    /\ timers < MaxInit
    /\ BagCardinality(sockets) + NewSockets <= MaxSockets
    /\ LET b == InitializeLoop(1, [connections |-> connections,
                                   sockets |-> sockets,
                                   emitted |-> <<>>,
                                   totalConnections |-> stats.totalConnections,
                                   activeConnections |-> stats.activeConnections,
                                   attempted |-> {},
                                   threw |-> FALSE], now)
       IN  /\ connections' = b.connections
           /\ sockets' = b.sockets
           /\ emitted' = b.emitted
           /\ stats' = [stats EXCEPT !.totalConnections = b.totalConnections,
                                     !.activeConnections = b.activeConnections]
           /\ isInitialized' = (isInitialized \/ ~b.threw)
           /\ timers' = IF b.threw THEN timers ELSE startPeriodicTasks
           /\ lastOp' = [Op("initialize", "", "", NoResult)
                           EXCEPT !.attempted = b.attempted, !.threw = b.threw]
    /\ closed' = FALSE
    /\ wire' = <<>>
    /\ UNCHANGED <<web, db, bot, issued, servers>>

\* ------------------------------------------------------------ transport events
\* ws.on('open')
OnOpen(sock, now) ==
    /\ sock.state = "connecting"
    /\ sockets' = Replace(Detach(sockets, {sock.id}), sock, Socket(sock.id, "open", TRUE))
    /\ connections' = (sock.id :> ConnectionRecord(TRUE, now)) @@ connections
    /\ emitted' = <<Note("server-connected", sock.id)>>
    /\ lastOp' = Op("open", sock.id, "", NoResult)
    /\ wire' = <<>>
    /\ UNCHANGED <<platform, bot, issued, servers, stats, timers, isInitialized, closed>>

\* handleDisconnect marking every record, not only that of serverId.
handleDisconnectAll(serverId) ==
    IF HasConnection(serverId)
    THEN /\ connections' = [id \in DOMAIN connections |->
                               [connections[id] EXCEPT !.status = "disconnected"]]
         /\ stats' = [stats EXCEPT !.activeConnections = @ - 1]
         /\ emitted' = <<Note("server-disconnected", serverId)>>
    ELSE /\ UNCHANGED <<connections, stats>>
         /\ emitted' = <<>>

\* handleDisconnect(serverId) on the fields it touches.
handleDisconnect(serverId) ==
    IF HasConnection(serverId)
    THEN /\ connections' = [connections EXCEPT ![serverId].status = "disconnected"]
         /\ stats' = [stats EXCEPT !.activeConnections = @ - 1]
         /\ emitted' = <<Note("server-disconnected", serverId)>>
    ELSE /\ UNCHANGED <<connections, stats>>
         /\ emitted' = <<>>

\* ws.on('error'): a failed handshake or a broken connection; the library
\* emits 'close' after it.
OnError(sock) ==
    /\ sock.state \in {"connecting", "open", "closing"}
    /\ sockets' = Replace(sockets, sock, [sock EXCEPT !.state = "errored"])
    /\ handleDisconnect(sock.id)
    /\ lastOp' = Op("error", sock.id, "", NoResult)
    /\ wire' = <<>>
    /\ UNCHANGED <<platform, bot, issued, servers, timers, isInitialized, closed>>

\* The peer starts the closing handshake: readyState is CLOSING from here on,
\* 'close' is emitted once the connection is down.  No handler of the bridge
\* runs.
PeerCloses(sock) ==
    /\ sock.state = "open"
    /\ sockets' = Replace(sockets, sock, [sock EXCEPT !.state = "closing"])
    /\ lastOp' = Op("readyState", sock.id, "", NoResult)
    /\ wire' = <<>>
    /\ emitted' = <<>>
    /\ UNCHANGED <<platform, bot, issued, servers, connections, stats, timers, isInitialized, closed>>

\* ws.on('close'): after an error, after ws.close(), or the peer closing.
OnClose(sock) ==
    /\ sock.state \in {"open", "closing", "errored"}
    /\ sockets' = Replace(sockets, sock, Socket(sock.id, "closed", sock.attached))
    /\ handleDisconnect(sock.id)
    /\ lastOp' = Op("close-event", sock.id, "", NoResult)
    /\ wire' = <<>>
    /\ UNCHANGED <<platform, bot, issued, servers, timers, isInitialized, closed>>

\* handleMessage emitting 'message' for a frame that does not parse too.
handleMessageEmitsAlways(serverId, parses, now) ==
    /\ IF parses /\ HasConnection(serverId)
       THEN /\ connections' = [connections EXCEPT
                                 ![serverId].messageCount = @ + 1,
                                 ![serverId].lastPing = now]
            /\ stats' = [stats EXCEPT !.messagesProcessed = @ + 1,
                                      !.lastActivity = now]
       ELSE UNCHANGED <<connections, stats>>
    /\ emitted' = <<Note("message", serverId)>>

\* handleMessage(serverId, data); parses = whether JSON.parse(data) returns.
handleMessage(serverId, parses, now) ==
    IF parses
    THEN /\ IF HasConnection(serverId)
            THEN /\ connections' = [connections EXCEPT
                                      ![serverId].messageCount = @ + 1,
                                      ![serverId].lastPing = now]
                 /\ stats' = [stats EXCEPT !.messagesProcessed = @ + 1,
                                           !.lastActivity = now]
            ELSE UNCHANGED <<connections, stats>>
         /\ emitted' = <<Note("message", serverId)>>
    ELSE /\ UNCHANGED <<connections, stats>>
         /\ emitted' = <<>>

\* ws.on('message')
OnMessage(sock, parses, now) ==
    /\ sock.state = "open"
    /\ stats.messagesProcessed < MaxProcessed
    /\ handleMessage(sock.id, parses, now)
    /\ lastOp' = Op("message", sock.id, IF parses THEN "" ELSE "parse", NoResult)
    /\ wire' = <<>>
    /\ UNCHANGED <<platform, bot, issued, servers, sockets, timers, isInitialized, closed>>

\* ------------------------------------------------------------ send
ToolsList == [kind |-> "tools", items |-> <<"calculate", "weather", "translate">>]

ToolsCall(name) == [kind |-> "content", items |-> <<name>>]

ResourcesList == [kind |-> "resources", items |-> <<"file://demo.txt", "http://example.com">>]

DemoResponse == [kind |-> "Demo response", items |-> <<"success">>]

\* What responses[method] finds for a name the table inherits: the function
\* of Object.prototype under that name.
Inherited(method) == [kind |-> "function", items |-> <<method>>]

\* simulateResponse answering every method with the placeholder.
simulateResponseNoTable(message) ==
    DemoResponse

\* simulateResponse(message): responses[message.method] || placeholder, the
\* lookup going through the prototype chain of the object literal.
simulateResponse(message) ==
    CASE message.method = "tools/list" -> ToolsList
      [] message.method = "tools/call" -> ToolsCall(message.name)
      [] message.method = "resources/list" -> ResourcesList
      [] message.method \in InheritedKeys -> Inherited(message.method)
      [] OTHER -> DemoResponse

Sent == [kind |-> "sent", items |-> <<>>]

Undefined == [kind |-> "undefined", items |-> <<>>]

NoConnectionError == "No connection to server"

NotConnectedError == "Server is not connected"

WsNotOpenError == "WebSocket is not open"

\* ws.send writing the frame to every endpoint whose socket is open.
wsSendBroadcast(serverId, message, throws) ==
    [error |-> "",
     frames |-> [i \in 1..Len(ServerOrder) |->
                    [id |-> ServerOrder[i], method |-> message.method]]]

\* connection.ws.send(..): a frame on the wire when the socket is open.  On a
\* socket that is not open the library, depending on its version, throws
\* (throws = TRUE) or drops the frame.
wsSend(serverId, message, throws) ==
    IF \E sock \in SocketsOf(serverId) : sock.attached /\ sock.state = "open"
    THEN [error |-> "", frames |-> <<[id |-> serverId, method |-> message.method]>>]
    ELSE [error |-> IF throws THEN WsNotOpenError ELSE "", frames |-> <<>>]

\* The endpoints on which ws.send would find its socket not open: the only
\* ones where the library's behaviour has two outcomes.
NotOpen ==
    {id \in DOMAIN connections :
        /\ connections[id].status = "connected"
        /\ connections[id].ws
        /\ ~\E sock \in SocketsOf(id) : sock.attached /\ sock.state = "open"}

\* sendMessage(serverId, message): the thrown error ("" when it returns), the
\* value returned, and the frames handed to the transport.
sendMessage(serverId, message, throws) ==
    IF ~HasConnection(serverId)
    THEN [error |-> NoConnectionError, result |-> NoResult, frames |-> <<>>]
    ELSE IF connections[serverId].status # "connected"
    THEN [error |-> NotConnectedError, result |-> NoResult, frames |-> <<>>]
    ELSE IF servers[serverId].status = "simulated"
    THEN [error |-> "", result |-> simulateResponse(message), frames |-> <<>>]
    ELSE IF connections[serverId].ws
    THEN LET w == wsSend(serverId, message, throws)
         IN  [error |-> w.error,
              result |-> IF w.error = "" THEN Sent ELSE NoResult,
              frames |-> w.frames]
    ELSE [error |-> "", result |-> Undefined, frames |-> <<>>]

\* SendMessage counting the call in stats before it looks the connection up.
SendMessageCountsFirst(serverId, message, throws) ==
    /\ LET r == sendMessage(serverId, message, throws)
       IN  /\ lastOp' = [Op("sendMessage", serverId, r.error, r.result)
                           EXCEPT !.method = message.method]
           /\ wire' = r.frames
    /\ stats' = [stats EXCEPT !.messagesProcessed =
                                IF @ < MaxProcessed THEN @ + 1 ELSE @]
    /\ emitted' = <<>>
    /\ UNCHANGED <<platform, bot, servers, connections, sockets, timers, isInitialized, closed>>

\* A caller's sendMessage(serverId, message).
SendMessage(serverId, message, throws) ==
    /\ LET r == sendMessage(serverId, message, throws)
       IN  /\ lastOp' = [Op("sendMessage", serverId, r.error, r.result)
                           EXCEPT !.method = message.method]
           /\ wire' = r.frames
    /\ emitted' = <<>>
    /\ UNCHANGED <<platform, bot, servers, connections, sockets, stats, timers, isInitialized,
                   closed>>

\* ------------------------------------------------------------ periodic tasks
PingMessage == [method |-> "ping", name |-> NoName]

\* PingStep with the try/catch around the ping left out.
PingStepNoCatch(id, b, throwing) ==
    IF IsConnected(id)
    THEN LET r == sendMessage(id, PingMessage, id \in throwing)
         IN  [frames |-> b.frames \o r.frames,
              pinged |-> b.pinged \cup {id},
              failed |-> IF r.error = "" THEN b.failed ELSE b.failed \cup {id},
              threw |-> r.error # ""]
    ELSE b

\* One iteration of the loop of pingServers() on b = [frames written, ids
\* pinged, ids whose ping threw, whether an error left the loop]; throwing:
\* the ids on whose socket send throws when it is not open.
PingStep(id, b, throwing) ==
    IF IsConnected(id)
    THEN LET r == sendMessage(id, PingMessage, id \in throwing)
         IN  [frames |-> b.frames \o r.frames,
              pinged |-> b.pinged \cup {id},
              failed |-> IF r.error = "" THEN b.failed ELSE b.failed \cup {id},
              threw |-> FALSE]
    ELSE b

RECURSIVE pingServers(_, _, _)
\* The loop of pingServers() from the i-th id on.  (The code follows the
\* insertion order of connections; the pings of different endpoints go to
\* different transports, so their relative order is not kept.)
pingServers(i, b, throwing) ==
    IF i > Len(ServerOrder) \/ b.threw
    THEN b
    ELSE pingServers(i + 1, PingStep(ServerOrder[i], b, throwing), throwing)

\* The 30 s interval.
Heartbeat(throwing) ==
    /\ timers > 0
    /\ LET b == pingServers(1, [frames |-> <<>>, pinged |-> {}, failed |-> {},
                                threw |-> FALSE], throwing)
       IN  /\ wire' = b.frames
           /\ lastOp' = [Op("pingServers", "", "", NoResult)
                           EXCEPT !.attempted = b.pinged, !.failed = b.failed,
                                  !.threw = b.threw]
    /\ emitted' = <<>>
    /\ UNCHANGED <<platform, bot, servers, connections, sockets, stats, timers, isInitialized,
                   closed>>

\* The 10 s interval: updateStats(); fires = Math.random() > 0.7 and
\* k = Math.floor(Math.random() * 3).
UpdateStats(fires, k, now) ==
    /\ timers > 0
    /\ stats.messagesProcessed + k <= MaxProcessed
    /\ stats' = IF fires
                THEN [stats EXCEPT !.messagesProcessed = @ + k, !.lastActivity = now]
                ELSE stats
    /\ lastOp' = Op("updateStats", "", "", NoResult)
    /\ wire' = <<>>
    /\ emitted' = <<>>
    /\ UNCHANGED <<platform, bot, issued, servers, connections, sockets, timers, isInitialized, closed>>

\* ------------------------------------------------------------ queries
\* getConnections(): the projection of connections.values().
getConnections ==
    { [id |-> id, status |-> connections[id].status,
       messageCount |-> connections[id].messageCount,
       lastPing |-> connections[id].lastPing] : id \in DOMAIN connections }

getStats == stats

\* ------------------------------------------------------------ close
RECURSIVE CloseConnected(_, _)
\* The loop of close(): ws.close() on the ws of every connected record.
CloseConnected(bag, ids) ==
    IF \E sock \in BagToSet(bag) : sock.id \in ids /\ sock.attached /\ sock.state = "open"
    THEN LET sock == CHOOSE x \in BagToSet(bag) :
                        x.id \in ids /\ x.attached /\ x.state = "open"
         IN  CloseConnected(Replace(bag, sock, Socket(sock.id, "closing", FALSE)), ids)
    ELSE bag

\* The records close() calls ws.close() on.
ClosedByClose == {id \in DOMAIN connections : connections[id].ws /\ IsConnected(id)}

\* close() taking every registered endpoint off stats.activeConnections.
CloseDisconnectsAll ==
    /\ sockets' = Detach(CloseConnected(sockets, ClosedByClose), Servers)
    /\ connections' = <<>>
    /\ closed' = TRUE
    /\ lastOp' = [Op("close", "", "", NoResult)
                    EXCEPT !.attempted = ClosedByClose, !.repeat = lastOp.op = "close"]
    /\ wire' = <<>>
    /\ emitted' = <<>>
    /\ stats' = [stats EXCEPT !.activeConnections = @ - Cardinality(Servers)]
    /\ UNCHANGED <<platform, bot, issued, servers, timers, isInitialized>>

Close ==
    /\ sockets' = Detach(CloseConnected(sockets, ClosedByClose), Servers)
    /\ connections' = <<>>
    /\ closed' = TRUE
    /\ lastOp' = [Op("close", "", "", NoResult)
                    EXCEPT !.attempted = ClosedByClose, !.repeat = lastOp.op = "close"]
    /\ wire' = <<>>
    /\ emitted' = <<>>
    /\ UNCHANGED <<platform, bot, issued, servers, stats, timers, isInitialized>>

\* ------------------------------------------------------------ web callers
\* What a web caller of sendMessage gets back; logFails: the logActivity call
\* that follows a successful sendMessage rejects.  An error of either call
\* lands in the handler's catch block.
Answered(r, logFails, failure) ==
    IF r.error # "" \/ logFails
    THEN [error |-> failure, result |-> NoResult]
    ELSE [error |-> "", result |-> r.result]

\* The socket 'mcp-call' handler, handleMCPCall(socket, data).
HandleMCPCall(serverId, message, throws, logFails) ==
    /\ LET r == sendMessage(serverId, message, throws)
           a == Answered(r, logFails, "MCP call failed")
       IN  /\ lastOp' = [Op("mcp-call", serverId, a.error, a.result)
                           EXCEPT !.method = message.method,
                                  !.attempted = {serverId},
                                  !.threw = r.error = "" /\ logFails]
           /\ wire' = r.frames
           /\ emitted' = <<Note(IF a.error = "" THEN "mcp-result" ELSE "error", serverId)>>
    /\ UNCHANGED <<platform, bot, issued, servers, connections, sockets, stats, timers,
                   isInitialized, closed>>

\* What POST /mcp/call does when the two checks before the call are left
\* out: sendMessage and the log whatever the bridge and the body.
postMCPCallUnchecked(hasBridge, fields, serverId, message, throws, hasDb, logFails) ==
    LET r == sendMessage(serverId, message, throws)
        a == Answered(r, hasDb /\ logFails, "500")
    IN  [status |-> a.error, result |-> a.result, frames |-> r.frames,
         called |-> {serverId}
                       \cup IF hasDb /\ r.error = "" THEN {"logActivity"} ELSE {},
         threw |-> r.error = "" /\ hasDb /\ logFails]

\* What POST /mcp/call does.  hasBridge: app.locals.mcpBridge is set; fields:
\* serverId and method of the body are both truthy; hasDb: app.locals.database
\* is set.  status: the status answered ("" for 200); called: the endpoint
\* sendMessage was called on and "logActivity" when the log was written to.
postMCPCall(hasBridge, fields, serverId, message, throws, hasDb, logFails) ==
    IF ~hasBridge
    THEN [status |-> "503", result |-> NoResult, frames |-> <<>>, called |-> {},
          threw |-> FALSE]
    ELSE IF ~fields
    THEN [status |-> "400", result |-> NoResult, frames |-> <<>>, called |-> {},
          threw |-> FALSE]
    ELSE LET r == sendMessage(serverId, message, throws)
             a == Answered(r, hasDb /\ logFails, "500")
         IN  [status |-> a.error, result |-> a.result, frames |-> r.frames,
              called |-> {serverId}
                            \cup IF hasDb /\ r.error = "" THEN {"logActivity"} ELSE {},
              threw |-> r.error = "" /\ hasDb /\ logFails]

\* POST /mcp/call.  The step records the status answered as its error, what
\* was called as attempted, and what the request lacked as failed.
PostMCPCall(hasBridge, fields, serverId, message, throws, hasDb, logFails) ==
    /\ LET a == postMCPCall(hasBridge, fields, serverId, message, throws, hasDb, logFails)
       IN  /\ lastOp' = [Op("POST /mcp/call", serverId, a.status, a.result)
                           EXCEPT !.method = message.method,
                                  !.attempted = a.called,
                                  !.failed = (IF hasBridge THEN {} ELSE {"mcpBridge"})
                                                \cup (IF fields THEN {} ELSE {"fields"}),
                                  !.threw = a.threw]
           /\ wire' = a.frames
    /\ emitted' = <<>>
    /\ UNCHANGED <<platform, bot, issued, servers, connections, sockets, stats, timers,
                   isInitialized, closed>>

\* ------------------------------------------------------------ discord bot
\* The token given to the constructor: none (null), one the gateway accepts,
\* one it rejects.
NoToken == "none"

Tokens == {NoToken, "valid", "rejected"}

\* The fields of the bridge, which no method of the bot touches.
bridge == <<servers, connections, sockets, stats, timers, isInitialized, closed, issued>>

\* No DiscordBot has been constructed.
NoBot ==
    [built |-> FALSE, token |-> NoToken, demoMode |-> FALSE, client |-> "none",
     isReady |-> FALSE, onceReady |-> FALSE, logins |-> 0, destroys |-> 0,
     stats |-> [messagesProcessed |-> 0, commandsExecuted |-> 0, serversConnected |-> 0]]

\* new DiscordBot(token, demoMode): with a token and outside demo mode a
\* client is created and its handlers registered (onceReady: the once-handler
\* of ClientReady is still registered); otherwise setupDemoMode() runs.
DiscordBot(token, demoMode) ==
    IF ~demoMode /\ token # NoToken
    THEN [NoBot EXCEPT !.built = TRUE, !.token = token, !.demoMode = demoMode,
                       !.client = "created", !.onceReady = TRUE]
    ELSE [NoBot EXCEPT !.built = TRUE, !.token = token, !.demoMode = demoMode,
                       !.isReady = TRUE, !.stats.serversConnected = 1]

\* client.login(token) on the bot b: the call is counted; a rejected token
\* makes it throw.
login(b) ==
    [b EXCEPT !.logins = @ + 1,
              !.client = IF b.token = "valid" THEN "logged-in" ELSE @]

\* stop() on the bot b.
stop(b) ==
    IF b.client # "none" /\ ~b.demoMode
    THEN [b EXCEPT !.destroys = @ + 1, !.client = "destroyed"]
    ELSE b

\* start() logging in whatever the mode and the token.
startAlwaysLogsIn(b) ==
    login(b)

\* start() on the bot b.
start(b) ==
    IF b.demoMode \/ b.token = NoToken
    THEN b
    ELSE login(b)

\* Whether start() on b throws: the rethrown login error.
startThrows(b) == ~(b.demoMode \/ b.token = NoToken) /\ b.token # "valid"

BotStep(name, error) ==
    /\ lastOp' = Op(name, "", error, NoResult)
    /\ wire' = <<>>
    /\ emitted' = <<>>
    /\ UNCHANGED <<bridge, platform>>

\* bot.start()
Start ==
    /\ bot.built
    /\ bot.logins < MaxLogins
    /\ bot' = start(bot)
    /\ BotStep("start", IF startThrows(bot) THEN "login" ELSE "")

\* bot.stop()
Stop ==
    /\ bot.built
    /\ bot.destroys < MaxDestroys
    /\ bot' = stop(bot)
    /\ BotStep("stop", "")

\* WebController.restartBot(), the 'bot-restart' command: in demo mode it
\* only answers; otherwise stop() then start(), an error of either answered
\* as a failure.
RestartBot ==
    /\ bot.built
    /\ bot.logins < MaxLogins
    /\ bot.destroys < MaxDestroys
    /\ bot' = IF bot.demoMode THEN bot ELSE start(stop(bot))
    /\ BotStep("bot-restart",
               IF ~bot.demoMode /\ startThrows(stop(bot))
               THEN "Failed to restart bot" ELSE "")

\* The once-handler of Events.ClientReady, after a login went through.
ClientReady(guilds) ==
    /\ bot.client = "logged-in"
    /\ bot.onceReady
    /\ bot' = [bot EXCEPT !.onceReady = FALSE, !.isReady = TRUE,
                          !.stats.serversConnected = guilds]
    /\ BotStep("ready", "")

\* The 10 s interval of setupDemoMode(): k = Math.floor(Math.random() * 5),
\* counts = Math.random() > 0.7.
DemoTick(k, counts) ==
    /\ bot.built
    /\ bot.client = "none"
    /\ bot.stats.messagesProcessed + k <= MaxBotMessages
    /\ counts => bot.stats.commandsExecuted < MaxBotCommands
    /\ bot' = [bot EXCEPT !.stats.messagesProcessed = @ + k,
                          !.stats.commandsExecuted = IF counts THEN @ + 1 ELSE @]
    /\ BotStep("demo-tick", "")

\* handleCommand(message): the command is counted before it is dispatched.
handleCommand(b) ==
    [b EXCEPT !.stats.commandsExecuted = @ + 1]

\* The handler of Events.MessageCreate on the bot b.  authorIsBot:
\* message.author.bot; isCommand: message.content.startsWith('!').
onMessageCreate(b, authorIsBot, isCommand) ==
    IF authorIsBot
    THEN b
    ELSE LET counted == [b EXCEPT !.stats.messagesProcessed = @ + 1]
         IN  IF isCommand THEN handleCommand(counted) ELSE counted

\* A message arrives from the gateway the client is logged in to.
MessageCreate(authorIsBot, isCommand) ==
    /\ bot.client = "logged-in"
    /\ bot.stats.messagesProcessed < MaxBotMessages
    /\ bot.stats.commandsExecuted < MaxBotCommands
    /\ bot' = onMessageCreate(bot, authorIsBot, isCommand)
    /\ lastOp' = [Op("MessageCreate", IF authorIsBot THEN "bot" ELSE "user", "", NoResult)
                    EXCEPT !.method = IF isCommand THEN "!" ELSE ""]
    /\ wire' = <<>>
    /\ emitted' = <<>>
    /\ UNCHANGED <<bridge, platform>>

\* isConnected()
isConnected == bot.isReady

\* ------------------------------------------------------------ database
\* A JavaScript value: its type and the text String() gives for it.
Js(t, text) == [t |-> t, s |-> text]

\* null, what getConfig resolves with for a key without a row.
Null == Js("null", "null")

\* The values given to setConfig.
Values == {Js("boolean", "true"), Js("number", "20"), Js("string", "20")}

\* The type argument of setConfig.
Types == {"boolean", "number", "string"}

\* The texts parseFloat reads a number from.
Numerals == {"10", "20"}

\* String(value)
String(value) == value.s

\* parseFloat(text)
parseFloat(text) == IF text \in Numerals THEN Js("number", text) ELSE Js("number", "NaN")

Row(value, type) == [value |-> value, type |-> type]

\* The configs of seedData(), key -> row.
Seeds ==
    [key \in {"demo_mode", "platform_name", "version", "max_connections", "auto_reconnect"} |->
        CASE key = "demo_mode" -> Row("true", "boolean")
          [] key = "platform_name" -> Row("Discord EX Platform", "string")
          [] key = "version" -> Row("1.0.0", "string")
          [] key = "max_connections" -> Row("10", "number")
          [] key = "auto_reconnect" -> Row("true", "boolean")]

\* The keys setConfig and getConfig are called with: a seeded one and one
\* seedData() does not know.
ConfigKeys == {"max_connections", "theme"}

\* new DatabaseManager() on a data directory without a database file.
\* configurations: the table of the file, key -> row; given: key -> the value
\* and type the latest setConfig on the key was called with.
NoDb == [open |-> FALSE, isInitialized |-> FALSE, configurations |-> <<>>, given |-> <<>>]

\* seedData() with INSERT OR REPLACE: every seeded key gets its seed row.
seedDataReplaces(table) ==
    Seeds @@ table

\* seedData() on the configurations table: INSERT OR IGNORE on the primary
\* key leaves a row that exists as it is.
seedData(table) ==
    table @@ Seeds

\* initialize() on the database d, when it succeeds.
initialize(d) ==
    [d EXCEPT !.open = TRUE, !.configurations = seedData(@), !.isInitialized = TRUE]

\* setConfig(key, value, type) on the database d: INSERT OR REPLACE.
setConfig(d, key, value, type) ==
    [d EXCEPT !.configurations = (key :> Row(String(value), type)) @@ @,
              !.given = (key :> Row(value, type)) @@ @]

\* getConfig(key) on the database d.
getConfig(d, key) ==
    IF key \in DOMAIN d.configurations
    THEN LET row == d.configurations[key]
         IN  IF row.type = "boolean"
             THEN Js("boolean", IF row.value = "true" THEN "true" ELSE "false")
             ELSE IF row.type = "number"
             THEN parseFloat(row.value)
             ELSE Js("string", row.value)
    ELSE Null

DbNullError == "Cannot read properties of null"

DbStep(name, key, error, result) ==
    /\ lastOp' = Op(name, key, error, result)
    /\ wire' = <<>>
    /\ emitted' = <<>>
    /\ UNCHANGED <<bridge, bot, web, server>>

\* database.initialize(); ok = FALSE is the error of mkdir, rethrown.
DbInitialize(ok) ==
    /\ db' = IF ok THEN initialize(db) ELSE db
    /\ DbStep("database.initialize", "", IF ok THEN "" ELSE "mkdir", NoResult)

\* The process ends and a new one constructs its DatabaseManager over the
\* same file.
DbRestart ==
    /\ db.open
    /\ db' = [db EXCEPT !.open = FALSE, !.isInitialized = FALSE]
    /\ DbStep("new DatabaseManager", "", "", NoResult)

\* database.setConfig(key, value, type); before initialize() this.db is null.
SetConfig(key, value, type) ==
    /\ db' = IF db.open THEN setConfig(db, key, value, type) ELSE db
    /\ DbStep("setConfig", key, IF db.open THEN "" ELSE DbNullError, NoResult)

\* database.getConfig(key)
GetConfig(key) ==
    /\ db' = db
    /\ DbStep("getConfig", key, IF db.open THEN "" ELSE DbNullError,
              IF db.open
              THEN [kind |-> getConfig(db, key).t, items |-> <<getConfig(db, key).s>>]
              ELSE NoResult)

\* ------------------------------------------------------------ web clients
\* No WebController has been constructed.  sockets: the sockets of socket.io
\* that emitted 'connection' and not yet 'disconnect', numbered in the order
\* they connected; session: the sessionId each connection handler holds;
\* uuids: the number of crypto.randomUUID() calls made.
NoWeb ==
    [built |-> FALSE, connectedClients |-> <<>>, sockets |-> {}, session |-> <<>>,
     uuids |-> 0]

\* new WebController(io, bot, bridge, database)
WebController == [NoWeb EXCEPT !.built = TRUE]

\* A generator that returns the same id on every call.
randomUUIDRepeats(drawn) ==
    1

\* crypto.randomUUID() after drawn calls: 122 random bits, an id none of the
\* earlier calls returned.
randomUUID(drawn) ==
    drawn + 1

\* The io 'connection' handler for a new socket.  dataFails: sendInitialData
\* catches an error and emits 'error' instead of 'initial-data'.
Connection(dataFails) ==
    /\ web.built
    /\ web.uuids < MaxClients
    /\ LET sock == web.uuids + 1
           sessionId == randomUUID(web.uuids)
       IN  web' = [web EXCEPT !.uuids = @ + 1,
                              !.sockets = @ \cup {sock},
                              !.session = (sock :> sessionId) @@ @,
                              !.connectedClients = (sessionId :> sock) @@ @]
    /\ lastOp' = Op("connection", "", "", NoResult)
    /\ wire' = <<>>
    /\ emitted' = <<Note(IF dataFails THEN "error" ELSE "initial-data", "")>>
    /\ UNCHANGED <<bridge, bot, server, db>>

\* The 'disconnect' handler of the socket sock.
Disconnect(sock) ==
    /\ sock \in web.sockets
    /\ web' = [web EXCEPT !.sockets = @ \ {sock},
                          !.connectedClients =
                              [id \in DOMAIN @ \ {web.session[sock]} |-> @[id]]]
    /\ lastOp' = Op("disconnect", "", "", NoResult)
    /\ wire' = <<>>
    /\ emitted' = <<>>
    /\ UNCHANGED <<bridge, bot, server, db>>

\* The command names of handleCommandExecution's switch, and one outside.
KnownCommands == {"bot-restart", "mcp-reconnect", "system-stats", "cleanup-database"}

Commands == KnownCommands \cup {"deploy"}

CommandFailed == "Command execution failed"

\* handleCommandExecution(socket, data).  hasData: data is an object (the
\* destructuring of anything else throws); argsOk: data.args is undefined or
\* an array; logFails: database.logActivity rejects; cleanupFails:
\* database.cleanup rejects.  called: the methods called, in order; event:
\* what is emitted to the socket.
handleCommandExecution(hasData, command, argsOk, logFails, cleanupFails) ==
    LET Failed(called) == [called |-> called, event |-> "error", error |-> CommandFailed,
                           result |-> NoResult]
        Result(called, kind, outcome) ==
            [called |-> called, event |-> "command-result", error |-> "",
             result |-> [kind |-> kind, items |-> <<outcome>>]]
    IN  IF ~hasData THEN Failed(<<>>)
        ELSE IF logFails THEN Failed(<<"logActivity">>)
        ELSE CASE command = "bot-restart" ->
                    Result(<<"logActivity", "restartBot">>, "Bot restarted",
                           IF ~bot.demoMode /\ startThrows(stop(bot))
                           THEN "failure" ELSE "success")
               [] command = "mcp-reconnect" ->
                    IF argsOk
                    THEN Result(<<"logActivity", "reconnectMCP">>, "MCP server reconnected",
                                "success")
                    ELSE Failed(<<"logActivity">>)
               [] command = "system-stats" ->
                    Result(<<"logActivity", "getSystemStats">>, "system-stats", "success")
               [] command = "cleanup-database" ->
                    Result(<<"logActivity", "cleanupDatabase">>, "Database cleanup",
                           IF cleanupFails THEN "failure" ELSE "success")
               [] OTHER ->
                    Result(<<"logActivity">>, "Unknown command", "error")

\* The 'execute-command' handler of a connected socket.  The step records
\* data.command as its method ("" without data) and the methods called as
\* attempted.
ExecuteCommand(sock, hasData, command, argsOk, logFails, cleanupFails) ==
    /\ sock \in web.sockets
    /\ bot.logins < MaxLogins
    /\ bot.destroys < MaxDestroys
    /\ LET a == handleCommandExecution(hasData, command, argsOk, logFails, cleanupFails)
       IN  /\ bot' = IF \E i \in DOMAIN a.called : a.called[i] = "restartBot"
                     THEN IF bot.demoMode THEN bot ELSE start(stop(bot))
                     ELSE bot
           /\ lastOp' = [Op("execute-command", "", a.error, a.result)
                           EXCEPT !.method = IF hasData THEN command ELSE "",
                                  !.attempted = {a.called[i] : i \in DOMAIN a.called},
                                  !.threw = hasData /\ logFails]
           /\ wire' = <<>>
           /\ emitted' = <<Note(a.event, command)>>
    /\ UNCHANGED <<bridge, web, server, db>>

\* ------------------------------------------------------------ server
Components == <<"database", "bridge", "bot", "web">>

\* A DiscordEXServer whose initializeComponents() has not run.  created: the
\* components constructed so far, in order; phase: the component that
\* finished initializing last, or "failed" once the catch has run; rejected:
\* whether the promise of initializeComponents() rejects.
NoServer == [phase |-> "new", created |-> <<>>, error |-> "", rejected |-> FALSE]

\* initializeComponents() going on to the next statement whatever the
\* outcome of the one before.
AfterIgnoringFailure(s, component, error) ==
    [s EXCEPT !.phase = component, !.created = Append(@, component)]

\* The server s after the statements that construct and initialize the
\* component: error # "" is what they threw, caught by the catch of
\* initializeComponents() and logged.
After(s, component, error) ==
    [s EXCEPT !.phase = IF error = "" THEN component ELSE "failed",
              !.created = Append(@, component),
              !.error = error]

ServerStep(component, error) ==
    /\ server' = After(server, component, error)
    /\ lastOp' = Op("initializeComponents", component, error, NoResult)
    /\ wire' = <<>>
    /\ emitted' = <<>>

\* this.db = new DatabaseManager(); await this.db.initialize()
ServerDatabase(ok) ==
    /\ server.phase = "new"
    /\ db' = IF ok THEN initialize(db) ELSE db
    /\ ServerStep("database", IF ok THEN "" ELSE "mkdir")
    /\ UNCHANGED <<bridge, bot, web>>

\* this.mcpBridge = new MCPBridge(); await this.mcpBridge.initialize()
ServerBridge(now) ==
    /\ server.phase = "database"
    /\ Initialize(now)
    /\ server' = After(server, "bridge", "")

\* The bot of the environment's DISCORD_TOKEN: the demo bot without one;
\* await this.bot.start().
ServerBot(token) ==
    /\ server.phase = "bridge"
    /\ LET b == IF token = NoToken THEN DiscordBot(NoToken, TRUE) ELSE DiscordBot(token, FALSE)
       IN  /\ bot' = start(b)
           /\ ServerStep("bot", IF startThrows(b) THEN "login" ELSE "")
    /\ UNCHANGED <<bridge, web, db>>

\* this.webController = new WebController(this.io, this.bot, ..)
ServerWeb ==
    /\ server.phase = "bot"
    /\ web' = WebController
    /\ ServerStep("web", "")
    /\ UNCHANGED <<bridge, bot, db>>

\* ------------------------------------------------------------ specification
\* The bridge as the constructor leaves it, with the registry holding the
\* ids of ServerOrder, each in one of the configurations connectToServer
\* distinguishes.
Init ==
    /\ servers \in [Servers -> ServerConfigs]
    /\ connections = <<>>
    /\ sockets = EmptyBag
    /\ stats = [totalConnections |-> 0, activeConnections |-> 0,
                messagesProcessed |-> 0, lastActivity |-> 0]
    /\ timers = 0
    /\ isInitialized = FALSE
    /\ closed = FALSE
    /\ lastOp = Op("constructor", "", "", NoResult)
    /\ wire = <<>>
    /\ emitted = <<>>
    /\ issued = [id \in Servers |-> 0]
    /\ bot = NoBot
    /\ web = NoWeb
    /\ server = NoServer
    /\ db = NoDb

Next ==
    \/ \E now \in Clock : Initialize(now) /\ UNCHANGED server
    \/ \E sock \in Sockets, now \in Clock : OnOpen(sock, now)
    \/ \E sock \in Sockets : OnError(sock)
    \/ \E sock \in Sockets : PeerCloses(sock)
    \/ \E sock \in Sockets : OnClose(sock)
    \/ \E sock \in Sockets, parses \in BOOLEAN :
          \E now \in IF parses THEN Clock ELSE {MaxTime} : OnMessage(sock, parses, now)
    \/ \E id \in CallIds, m \in CallMessages :
          \E throws \in {FALSE} \cup {id \in NotOpen} :
              SendMessage(id, m, throws) /\ UNCHANGED issued
    \/ \E throwing \in SUBSET NotOpen : Heartbeat(throwing) /\ UNCHANGED issued
    \/ \E fires \in BOOLEAN :
          \E k \in IF fires THEN 0..2 ELSE {0}, now \in IF fires THEN Clock ELSE {MaxTime} :
              UpdateStats(fires, k, now)
    \/ Close

Spec == Init /\ [][Next]_vars

\* The intervals of startPeriodicTasks() are never cleared: once started, the
\* heartbeat keeps firing.
SpecFair ==
    Spec /\ WF_vars(\E throwing \in SUBSET NotOpen :
                        Heartbeat(throwing) /\ UNCHANGED issued)

\* The calls of sendMessage counted per endpoint, those of pingServers()
\* included: ids = the endpoints a step calls sendMessage on.
Issue(ids) ==
    /\ \A id \in ids \cap Servers : issued[id] < MaxIssued
    /\ issued' = [id \in Servers |-> issued[id] + IF id \in ids THEN 1 ELSE 0]

\* The bridge with every sendMessage call counted in issued.
NextIssued ==
    \/ \E now \in Clock : Initialize(now) /\ UNCHANGED server
    \/ \E sock \in Sockets, now \in Clock : OnOpen(sock, now)
    \/ \E sock \in Sockets : OnError(sock)
    \/ \E sock \in Sockets : PeerCloses(sock)
    \/ \E sock \in Sockets : OnClose(sock)
    \/ \E sock \in Sockets, parses \in BOOLEAN :
          \E now \in IF parses THEN Clock ELSE {MaxTime} : OnMessage(sock, parses, now)
    \/ \E id \in CallIds, m \in CallMessages :
          \E throws \in {FALSE} \cup {id \in NotOpen} :
              SendMessage(id, m, throws) /\ Issue({id})
    \/ \E throwing \in SUBSET NotOpen :
          Heartbeat(throwing) /\ Issue({id \in Servers : IsConnected(id)})
    \/ \E fires \in BOOLEAN :
          \E k \in IF fires THEN 0..2 ELSE {0}, now \in IF fires THEN Clock ELSE {MaxTime} :
              UpdateStats(fires, k, now)
    \/ Close

SpecIssued == Init /\ [][NextIssued]_vars

\* The callers of sendMessage with every message of Messages, on a bridge
\* that is initialized, has its sockets open, and is closed; calls counted.
NextCalls ==
    \/ \E now \in Clock : Initialize(now) /\ UNCHANGED server
    \/ \E sock \in Sockets, now \in Clock : OnOpen(sock, now)
    \/ \E id \in CallIds, m \in Messages :
          \E throws \in {FALSE} \cup {id \in NotOpen} :
              SendMessage(id, m, throws) /\ Issue({id})
    \/ Close

SpecCalls == Init /\ [][NextCalls]_vars

\* The web callers of the bridge: the socket handler and the HTTP route, on
\* a bridge that is initialized, has its sockets open, and is closed.
NextWeb ==
    \/ \E now \in Clock : Initialize(now) /\ UNCHANGED server
    \/ \E sock \in Sockets, now \in Clock : OnOpen(sock, now)
    \/ \E id \in CallIds, m \in Messages, logFails \in BOOLEAN :
          \E throws \in {FALSE} \cup {id \in NotOpen} :
              HandleMCPCall(id, m, throws, logFails)
    \/ \E hasBridge, fields, hasDb, logFails \in BOOLEAN, id \in CallIds, m \in CallMessages :
          \E throws \in {FALSE} \cup {id \in NotOpen} :
              PostMCPCall(hasBridge, fields, id, m, throws, hasDb, logFails)
    \/ Close

SpecWeb == Init /\ [][NextWeb]_vars

\* The bot as its constructor leaves it, next to a bridge with the default
\* (simulated) registry.
InitBot ==
    /\ servers = [id \in Servers |-> [status |-> "simulated", urlOk |-> TRUE]]
    /\ connections = <<>>
    /\ sockets = EmptyBag
    /\ stats = [totalConnections |-> 0, activeConnections |-> 0,
                messagesProcessed |-> 0, lastActivity |-> 0]
    /\ timers = 0
    /\ isInitialized = FALSE
    /\ closed = FALSE
    /\ lastOp = Op("constructor", "", "", NoResult)
    /\ wire = <<>>
    /\ emitted = <<>>
    /\ issued = [id \in Servers |-> 0]
    /\ bot \in {DiscordBot(token, demoMode) : token \in Tokens, demoMode \in BOOLEAN}
    /\ web = NoWeb
    /\ server = NoServer
    /\ db = NoDb

NextBot ==
    \/ Start
    \/ Stop
    \/ RestartBot
    \/ \E guilds \in 0..MaxGuilds : ClientReady(guilds)
    \/ \E k \in 0..4, counts \in BOOLEAN : DemoTick(k, counts)
    \/ \E authorIsBot, isCommand \in BOOLEAN : MessageCreate(authorIsBot, isCommand)

SpecBot == InitBot /\ [][NextBot]_vars

\* The server from its construction on: initializeComponents(), then the
\* web clients that connect, send commands and disconnect.
InitServer ==
    /\ servers = [id \in Servers |-> [status |-> "simulated", urlOk |-> TRUE]]
    /\ connections = <<>>
    /\ sockets = EmptyBag
    /\ stats = [totalConnections |-> 0, activeConnections |-> 0,
                messagesProcessed |-> 0, lastActivity |-> 0]
    /\ timers = 0
    /\ isInitialized = FALSE
    /\ closed = FALSE
    /\ lastOp = Op("constructor", "", "", NoResult)
    /\ wire = <<>>
    /\ emitted = <<>>
    /\ issued = [id \in Servers |-> 0]
    /\ bot = NoBot
    /\ web = NoWeb
    /\ server = NoServer
    /\ db = NoDb

NextServer ==
    \/ \E ok \in BOOLEAN : ServerDatabase(ok)
    \/ \E now \in Clock : ServerBridge(now)
    \/ \E token \in Tokens : ServerBot(token)
    \/ ServerWeb
    \/ \E dataFails \in BOOLEAN : Connection(dataFails)
    \/ \E sock \in 1..MaxClients : Disconnect(sock)
    \/ \E sock \in 1..MaxClients, command \in Commands,
          hasData, argsOk, logFails, cleanupFails \in BOOLEAN :
          ExecuteCommand(sock, hasData, command, argsOk, logFails, cleanupFails)

SpecServer == InitServer /\ [][NextServer]_vars

\* The database alone, from its construction on.
NextDb ==
    \/ \E ok \in BOOLEAN : DbInitialize(ok)
    \/ DbRestart
    \/ \E key \in ConfigKeys, value \in Values, type \in Types : SetConfig(key, value, type)
    \/ \E key \in ConfigKeys : GetConfig(key)

SpecDb == InitServer /\ [][NextDb]_vars

\* ------------------------------------------------------------ properties
ConnectedEndpoints == {id \in Servers : IsConnected(id)}

\* Sockets of the endpoint that have not emitted 'close', with multiplicity.
OpenTransports(id) ==
    BagCardinality([sock \in {x \in SocketsOf(id) : x.state # "closed"} |-> sockets[sock]])

AllSimulated == \A id \in Servers : servers[id].status = "simulated"

\* C1: in every reachable state stats.activeConnections equals the number of
\* endpoints whose connection status is 'connected'.
C1_ActiveCountsConnected ==
    stats.activeConnections = Cardinality(ConnectedEndpoints)

\* C2: each endpoint has at most one transport that is not closed.
C2_OneTransportPerEndpoint ==
    \A id \in Servers : OpenTransports(id) <= 1

\* C3: once close() has returned no endpoint has status 'connected', whatever
\* transport event arrives later.
C3_NoneConnectedAfterClose ==
    closed => ConnectedEndpoints = {}

\* C4: after close() has returned a run of pingServers or updateStats writes
\* no ping and changes no counter and no timestamp.
C4_PeriodicTasksStopped ==
    [][(closed /\ lastOp'.op \in {"pingServers", "updateStats"})
         => (wire' = <<>> /\ stats' = stats /\ connections' = connections)]_vars

\* C5: after close() of an initialized bridge getConnections() has an entry
\* for every registered endpoint, each with status 'closed' or 'disconnected'.
C5_AllReportedClosed ==
    (closed /\ isInitialized) => \A id \in Servers :
                 \E c \in getConnections :
                     c.id = id /\ c.status \in {"closed", "disconnected"}

\* C6: with only simulated endpoints registered, activeConnections is the
\* number of endpoints after the first initialize(), resources/list then
\* returns exactly 2 resources, and activeConnections is 0 after close().
C6_SimulatedScenario ==
    AllSimulated =>
        /\ (lastOp.op = "initialize" /\ timers = 1)
              => getStats.activeConnections = Cardinality(Servers)
        /\ (lastOp.op = "sendMessage" /\ lastOp.method = "resources/list"
              /\ lastOp.id \in Servers /\ IsConnected(lastOp.id))
              => (lastOp.result.kind = "resources" /\ Len(lastOp.result.items) = 2)
        /\ (lastOp.op = "close" /\ timers = 1)
              => getStats.activeConnections = 0

\* C7: sendMessage with an id no endpoint is registered under throws the
\* unknown-endpoint error, writes no frame, and leaves the connections, the
\* stats and the transports as they were.
C7_UnknownEndpointSend ==
    [][(lastOp'.op = "sendMessage" /\ lastOp'.id \notin DOMAIN servers)
         => /\ lastOp'.error = NoConnectionError
            /\ wire' = <<>>
            /\ emitted' = <<>>
            /\ UNCHANGED <<connections, stats, sockets, timers, isInitialized>>]_vars

\* C7 witness: the call was made on a bridge that holds connections.
C7_Witness ==
    /\ lastOp.op = "sendMessage"
    /\ lastOp.id = MissingId
    /\ lastOp.method = "ping"
    /\ lastOp.error = NoConnectionError
    /\ ConnectedEndpoints # {}
    /\ stats.messagesProcessed > 0

\* C8: on an initialized bridge that has not been closed, sendMessage to a
\* registered endpoint that is not connected throws the not-connected error
\* and writes nothing.
C8_NotConnectedSend ==
    (/\ lastOp.op = "sendMessage" /\ lastOp.id \in Servers /\ ~IsConnected(lastOp.id)
     /\ isInitialized /\ ~closed)
        => (lastOp.error = NotConnectedError /\ wire = <<>>)

\* C9: when initialize() has completed every registered endpoint has a
\* connection state, one of connecting, connected, idle.
C9_StateAfterInitialize ==
    lastOp.op = "initialize"
        => \A id \in Servers :
               /\ HasConnection(id)
               /\ connections[id].status \in {"connecting", "connected", "idle"}

\* C10: initialize() completes without throwing whichever connects fail: a
\* connect is attempted on every registered endpoint, every endpoint whose
\* connect does not fail is connected (simulated) or has its handshake started
\* (live), and the periodic tasks are started.
C10_InitializeSurvivesFailures ==
    [][lastOp'.op = "initialize"
         => /\ ~lastOp'.threw
            /\ lastOp'.attempted = Servers
            /\ timers' = timers + 1
            /\ isInitialized'
            /\ \A id \in Servers :
                  /\ servers[id].status = "simulated" => IsConnected(id)'
                  /\ (servers[id].status # "simulated" /\ servers[id].urlOk)
                        => \E sock \in BagToSet(sockets') :
                              sock.id = id /\ sock.state = "connecting"]_vars

\* C10 witness: the connect of the first endpoint failed and initialize()
\* went on to connect the second and to start the timers.
C10_Witness ==
    /\ lastOp.op = "initialize"
    /\ ~servers[ServerOrder[1]].urlOk
    /\ servers[ServerOrder[2]].status = "simulated"
    /\ IsConnected(ServerOrder[2])
    /\ timers = 1

Disconnected(id) == HasConnection(id) /\ connections[id].status = "disconnected"

\* A connect is being made for the endpoint: initialize() has just run
\* connectToServer on it, or a handshake for it is in flight.
ConnectAttempt(id) ==
    \/ lastOp.op = "initialize" /\ id \in lastOp.attempted
    \/ \E sock \in SocketsOf(id) : sock.state = "connecting"

\* C11: while the bridge is not closed, an endpoint that becomes
\* 'disconnected' eventually has a new connect attempt made for it, given that
\* the heartbeat keeps firing.
C11_ReconnectAttempted ==
    \A id \in Servers :
        (Disconnected(id) /\ ~closed)
            ~> (closed \/ ~Disconnected(id) \/ ConnectAttempt(id))

\* C12: when the heartbeat ping to a connected endpoint fails, the endpoint
\* is 'disconnected' at the end of that heartbeat cycle.
C12_FailedPingDisconnects ==
    lastOp.op = "pingServers"
        => \A id \in lastOp.failed : connections[id].status = "disconnected"

FrameTo(id) == \E i \in DOMAIN wire : wire[i].id = id

HasOpenSocket(id) ==
    \E sock \in SocketsOf(id) : sock.attached /\ sock.state = "open"

\* C13: a heartbeat cycle pings every connected endpoint and is not left
\* early, whether or not the ping of another endpoint failed; a ping or a
\* sendMessage on a connected endpoint whose socket is open puts its frame on
\* the wire whatever the state of the other endpoints.
C13_EveryConnectedPinged ==
    /\ lastOp.op = "pingServers"
          => /\ ~lastOp.threw
             /\ lastOp.attempted = ConnectedEndpoints
             /\ \A id \in ConnectedEndpoints : HasOpenSocket(id) => FrameTo(id)
    /\ (lastOp.op = "sendMessage" /\ lastOp.id \in ConnectedEndpoints
           /\ HasOpenSocket(lastOp.id))
          => FrameTo(lastOp.id)

\* C13 witness: the ping of the first endpoint threw and the second endpoint
\* got its ping.
C13_Witness ==
    /\ lastOp.op = "pingServers"
    /\ lastOp.failed = {ServerOrder[1]}
    /\ ServerOrder[2] \in lastOp.attempted
    /\ FrameTo(ServerOrder[2])

\* C14: every sendMessage that succeeds and every inbound frame received
\* increments the endpoint's messageCount by exactly one and updates its
\* last-activity timestamp (it does not move back).
C14_SendAndReceiveCounted ==
    [][((lastOp'.op = "sendMessage" /\ lastOp'.error = "") \/ lastOp'.op = "message")
         /\ lastOp'.id \in DOMAIN connections
         => /\ lastOp'.id \in DOMAIN connections'
            /\ connections'[lastOp'.id].messageCount
                  = connections[lastOp'.id].messageCount + 1
            /\ connections'[lastOp'.id].lastPing
                  >= connections[lastOp'.id].lastPing]_vars

\* C15: no step lowers or resets the messageCount of an endpoint.
C15_MessageCountMonotonic ==
    [][\A id \in DOMAIN connections \cap DOMAIN connections' :
          connections'[id].messageCount >= connections[id].messageCount]_vars

\* The endpoints whose messageCount the step raises by one.
Incremented ==
    {id \in DOMAIN connections \cap DOMAIN connections' :
        connections'[id].messageCount = connections[id].messageCount + 1}

\* C17: stats.messagesProcessed moves only with the per-endpoint message
\* counters: each step adds to it the number of counter increments of the
\* step, and updateStats adds nothing to it.
C17_ProcessedCountsIncrements ==
    [][stats'.messagesProcessed
          = stats.messagesProcessed + Cardinality(Incremented)]_vars

TimeoutError == "TimeoutError"

IsLive(id) == id \in Servers /\ servers[id].status # "simulated"

\* C18: a sendMessage on a live connected endpoint that completes without a
\* response frame having arrived completes with a timeout error, not with a
\* success result, and the endpoint stays 'connected'.
C18_LiveSendTimesOut ==
    (lastOp.op = "sendMessage" /\ IsLive(lastOp.id) /\ IsConnected(lastOp.id))
        => (lastOp.error = TimeoutError /\ lastOp.result = NoResult)

\* C19: initialize() run while an endpoint is already 'connected' leaves its
\* record alone, emits no notification for it and does not count it again.
C19_ConnectIdempotent ==
    [][lastOp'.op = "initialize"
         => /\ \A id \in ConnectedEndpoints :
                  /\ id \in DOMAIN connections'
                  /\ connections'[id] = connections[id]
                  /\ ~\E i \in DOMAIN emitted' : emitted'[i].id = id
            /\ stats'.totalConnections
                  <= stats.totalConnections + Cardinality(Servers \ ConnectedEndpoints)
            /\ stats'.activeConnections
                  <= stats.activeConnections + Cardinality(Servers \ ConnectedEndpoints)]_vars

\* C20: an 'error' or 'close' event of a socket whose endpoint is already
\* 'disconnected' changes neither the records nor the statistics and emits
\* no second notification.
C20_DisconnectIdempotent ==
    [][(lastOp'.op \in {"error", "close-event"} /\ Disconnected(lastOp'.id))
         => (connections' = connections /\ stats' = stats /\ emitted' = <<>>)]_vars

\* C16: the messageCount of an endpoint never exceeds the number of
\* sendMessage calls issued to it.
C16_CountAtMostIssued ==
    \A id \in DOMAIN connections : connections[id].messageCount <= issued[id]

\* C21: a close() called right after a close() raises no error and leaves
\* connections, stats and the transports exactly as the first one left them.
C21_CloseIdempotent ==
    [][(lastOp'.op = "close" /\ lastOp'.repeat)
         => /\ lastOp'.error = "" /\ ~lastOp'.threw
            /\ lastOp'.attempted = {}
            /\ connections' = connections
            /\ stats' = stats
            /\ sockets' = sockets]_vars

\* C21 witness: the second close() has returned; the first had closed the
\* socket of a live endpoint.
C21_Witness ==
    /\ lastOp.op = "close"
    /\ lastOp.repeat
    /\ \E sock \in Sockets : sock.state = "closing" /\ ~sock.attached

\* C22: a record whose status is 'disconnected' holds no transport handle.
C22_DisconnectedHasNoHandle ==
    \A id \in DOMAIN connections :
        connections[id].status = "disconnected" => ~connections[id].ws

\* The sockets of the endpoint in the bag, with multiplicity.
SocketBagOf(bag, id) ==
    [sock \in {x \in BagToSet(bag) : x.id = id} |-> bag[sock]]

\* The step leaves the record and the sockets of the endpoint as they are.
Untouched(id) ==
    /\ (id \in DOMAIN connections') = (id \in DOMAIN connections)
    /\ id \in DOMAIN connections => connections'[id] = connections[id]
    /\ SocketBagOf(sockets', id) = SocketBagOf(sockets, id)

\* C23: a transport 'error' or 'close' or an inbound frame on one endpoint
\* leaves the record and the transports of every other endpoint unchanged; a
\* failed connect does not keep initialize() from connecting the other
\* endpoints; initialize() and the periodic tasks never throw.
C23_FailuresContained ==
    [][/\ lastOp'.op \in {"error", "close-event", "message"}
            => \A id \in Servers \ {lastOp'.id} : Untouched(id)
       /\ lastOp'.op \in {"initialize", "pingServers", "updateStats"}
            => (~lastOp'.threw /\ lastOp'.error = "")
       /\ lastOp'.op = "initialize"
            => \A id \in Servers :
                  (servers[id].status = "simulated" => IsConnected(id)')
                  /\ ((servers[id].status # "simulated" /\ servers[id].urlOk)
                        => SocketBagOf(sockets', id) # SocketBagOf(sockets, id))]_vars

\* C23 witness: the socket of the first endpoint has emitted 'error' while
\* the second endpoint is connected over an open socket.
C23_Witness ==
    /\ lastOp.op = "error"
    /\ lastOp.id = ServerOrder[1]
    /\ Disconnected(ServerOrder[1])
    /\ IsConnected(ServerOrder[2])
    /\ HasOpenSocket(ServerOrder[2])

\* A sendMessage on a connected simulated endpoint has just returned.
SimulatedCall ==
    /\ lastOp.op = "sendMessage"
    /\ lastOp.id \in Servers
    /\ servers[lastOp.id].status = "simulated"
    /\ IsConnected(lastOp.id)

\* C24: on a connected simulated endpoint sendMessage(id, {method:
\* 'tools/list'}) returns the three tools calculate, weather, translate, on
\* the first call and on every later one.
C24_ToolsListFixed ==
    (SimulatedCall /\ lastOp.method = "tools/list")
        => /\ lastOp.error = ""
           /\ lastOp.result.kind = "tools"
           /\ Len(lastOp.result.items) = 3
           /\ lastOp.result.items = <<"calculate", "weather", "translate">>

\* C24 witness: the second call on the endpoint has returned the tools.
C24_Witness ==
    /\ SimulatedCall
    /\ lastOp.method = "tools/list"
    /\ lastOp.result.kind = "tools"
    /\ issued[lastOp.id] = 2

\* C25: on a connected simulated endpoint tools/list, tools/call and
\* resources/list return their table entry and every other method name
\* returns the placeholder {message: 'Demo response', status: 'success'},
\* never an error.
C25_ResponseByMethod ==
    SimulatedCall
        => /\ lastOp.error = ""
           /\ lastOp.result.kind =
                 CASE lastOp.method = "tools/list" -> "tools"
                   [] lastOp.method = "tools/call" -> "content"
                   [] lastOp.method = "resources/list" -> "resources"
                   [] OTHER -> "Demo response"
           /\ lastOp.method \notin {"tools/list", "tools/call", "resources/list"}
                 => lastOp.result.items = <<"success">>

\* C27: a bot built without a token runs in demo mode: it has no client,
\* isConnected() is true from construction on, and whatever start(), stop()
\* and 'bot-restart' calls are made, no client logs in or is destroyed.
C27_DemoModeNeverLogsIn ==
    (bot.built /\ bot.token = NoToken)
        => /\ bot.client = "none"
           /\ isConnected
           /\ bot.logins = 0
           /\ bot.destroys = 0

\* C27 witness: the demo bot of the server (no token, demoMode set) has
\* answered a 'bot-restart' after its interval has ticked.
C27_Witness ==
    /\ bot.built /\ bot.token = NoToken /\ bot.demoMode
    /\ lastOp.op = "bot-restart"
    /\ bot.stats.messagesProcessed > 0

\* C26: when sendMessage succeeds and the logActivity call after it fails,
\* the caller (socket 'mcp-call' handler, POST /mcp/call) still gets the
\* result of the call and no error.
C26_LogFailureNotPropagated ==
    (lastOp.op \in {"mcp-call", "POST /mcp/call"} /\ lastOp.threw)
        => (lastOp.error = "" /\ lastOp.result # NoResult)

\* C28: a frame that parses causes exactly one 'message' event, carrying the
\* id of the endpoint it came from; a frame that does not parse causes no
\* event and changes no counter or timestamp; neither makes the handler
\* throw; what sendMessage returns on a live endpoint is the 'sent'
\* acknowledgement, never an inbound frame.
C28_InboundFrames ==
    [][/\ lastOp'.op = "message"
            => /\ ~lastOp'.threw
               /\ lastOp'.error = ""
                     => emitted' = <<Note("message", lastOp'.id)>>
               /\ lastOp'.error # ""
                     => (emitted' = <<>> /\ connections' = connections
                                        /\ stats' = stats)
       /\ (lastOp'.op = "sendMessage" /\ IsLive(lastOp'.id) /\ lastOp'.error = "")
            => lastOp'.result = Sent]_vars

\* C28 witness: a frame that does not parse has been handled on a connected
\* endpoint.
C28_Witness ==
    /\ lastOp.op = "message"
    /\ lastOp.error = "parse"
    /\ IsConnected(lastOp.id)

\* C29 as claimed: sendMessage on a live connected endpoint writes exactly
\* one frame, to that endpoint; on a simulated endpoint it writes none.
C29_OneFrameToTarget ==
    (lastOp.op = "sendMessage" /\ IsConnected(lastOp.id))
        => IF IsLive(lastOp.id)
           THEN wire = <<[id |-> lastOp.id, method |-> lastOp.method]>>
           ELSE wire = <<>>

\* C29 amended: sendMessage on a live connected endpoint whose socket is open
\* writes exactly one frame, to that endpoint, and none to any other; while
\* the socket is not open (closing, 'close' still to come) it writes none;
\* on a simulated endpoint it writes none.
C29_OneFrameWhileOpen ==
    (lastOp.op = "sendMessage" /\ IsConnected(lastOp.id))
        => IF IsLive(lastOp.id) /\ HasOpenSocket(lastOp.id)
           THEN wire = <<[id |-> lastOp.id, method |-> lastOp.method]>>
           ELSE wire = <<>>

\* C29 witness: one frame was written to the first endpoint while the socket
\* of the second is open as well.
C29_Witness ==
    /\ lastOp.op = "sendMessage"
    /\ lastOp.id = ServerOrder[1]
    /\ Len(wire) = 1
    /\ HasOpenSocket(ServerOrder[2])

\* The kind of the last connect or disconnect notification emitted for the
\* endpoint, as far as the record tells: the status of a record is written
\* only together with the notification of the same kind, so while the record
\* exists its status is the kind of the last notification.
LastNotification(id) ==
    IF ~HasConnection(id) THEN "unknown"
    ELSE IF connections[id].status = "connected" THEN "server-connected"
    ELSE "server-disconnected"

\* C30: no 'server-connected' or 'server-disconnected' notification follows
\* one of the same kind for the same endpoint.
C30_NotificationsAlternate ==
    [][\A i \in DOMAIN emitted' :
          emitted'[i].event \in {"server-connected", "server-disconnected"}
              => emitted'[i].event # LastNotification(emitted'[i].id)]_vars

\* C31: in every reachable state
\* 0 <= stats.activeConnections <= stats.totalConnections.
C31_ActiveWithinTotal ==
    /\ 0 <= stats.activeConnections
    /\ stats.activeConnections <= stats.totalConnections

\* C33: POST /mcp/call calls sendMessage only when the bridge exists and
\* serverId and method are both given; without the bridge it answers 503 and
\* without a field 400, in both cases calling neither the bridge nor the
\* activity log and sending no frame; an error of sendMessage (no connection
\* under the id, or one that is not connected) is answered 500.
C33_PostMCPCallValidates ==
    lastOp.op = "POST /mcp/call"
        => /\ lastOp.attempted # {} => lastOp.failed = {}
           /\ "mcpBridge" \in lastOp.failed
                 => (lastOp.error = "503" /\ lastOp.attempted = {} /\ wire = <<>>)
           /\ lastOp.failed = {"fields"}
                 => (lastOp.error = "400" /\ lastOp.attempted = {} /\ wire = <<>>)
           /\ lastOp.failed = {}
                 => /\ lastOp.id \in lastOp.attempted
                    /\ ~IsConnected(lastOp.id)
                          => (lastOp.error = "500" /\ lastOp.attempted = {lastOp.id})

\* C33 witness: a request without a field has been answered 400 while the
\* endpoint it names is connected.
C33_Witness ==
    /\ lastOp.op = "POST /mcp/call"
    /\ lastOp.failed = {"fields"}
    /\ lastOp.error = "400"
    /\ IsConnected(lastOp.id)

\* C34: in every reachable state of the bot, in demo mode and in live mode,
\* stats.commandsExecuted <= stats.messagesProcessed, and a message authored
\* by a bot changes neither counter.
C34_CommandsWithinMessages ==
    /\ [](bot.stats.commandsExecuted <= bot.stats.messagesProcessed)
    /\ [][(lastOp'.op = "MessageCreate" /\ lastOp'.id = "bot")
              => bot'.stats = bot.stats]_vars

\* C32: every 'execute-command' request is answered with exactly one event,
\* 'command-result' or 'error'; a command is dispatched only after its
\* activity-log write succeeded; a command name outside the four known ones
\* is answered with 'command-result' carrying {error: 'Unknown command'}
\* and nothing is dispatched for it.
C32_CommandAnsweredOnce ==
    lastOp.op = "execute-command"
        => /\ Len(emitted) = 1
           /\ emitted[1].event \in {"command-result", "error"}
           /\ lastOp.attempted \ {"logActivity"} # {}
                 => ("logActivity" \in lastOp.attempted /\ ~lastOp.threw)
           /\ lastOp.method \notin KnownCommands \cup {""}
                 => /\ emitted[1].event = "command-result"
                    /\ lastOp.result.kind = "Unknown command"
                    /\ lastOp.attempted \subseteq {"logActivity"}

\* The sockets connectedClients holds.
ClientSockets == {web.connectedClients[id] : id \in DOMAIN web.connectedClients}

\* C35: after any sequence of 'connection' and 'disconnect' events,
\* connectedClients holds exactly the sockets that connected and have not
\* disconnected, one entry each, every socket under the session id its
\* handler drew.
C35_ClientsAreTheConnected ==
    web.built
        => /\ ClientSockets = web.sockets
           /\ Cardinality(DOMAIN web.connectedClients) = Cardinality(web.sockets)
           /\ \A sock \in web.sockets : web.connectedClients[web.session[sock]] = sock

\* C35 witness: of several clients that connected, one is left after a
\* disconnect.
C35_Witness ==
    /\ lastOp.op = "disconnect"
    /\ web.uuids >= 2
    /\ Cardinality(web.sockets) = 1
    /\ Cardinality(DOMAIN web.connectedClients) = 1

Created(component) == \E i \in DOMAIN server.created : server.created[i] = component

\* C36: the components are created in the order database, bridge, bot, web
\* controller, each only after the one before finished initializing; a
\* component not yet created is as it was before initializeComponents();
\* once a step has failed nothing further is created or changed; the
\* promise of initializeComponents() never rejects.
C36_ComponentsInOrder ==
    /\ [](/\ Len(server.created) <= Len(Components)
          /\ server.created = SubSeq(Components, 1, Len(server.created))
          /\ Created("bridge") => db.isInitialized
          /\ Created("bot") => isInitialized
          /\ Created("web") => (bot.built /\ (bot.demoMode \/ bot.client = "logged-in"))
          /\ ~Created("database") => db = NoDb
          /\ ~Created("bridge") => (~isInitialized /\ connections = <<>>)
          /\ ~Created("bot") => bot = NoBot
          /\ ~Created("web") => web = NoWeb
          /\ server.phase = "failed" => server.error # ""
          /\ ~server.rejected)
    /\ [][server.phase = "failed"
              => UNCHANGED <<server, db, isInitialized, connections, bot, web>>]_vars

\* C36 witness: the login of the bot was rejected after database and bridge
\* were initialized, and no web controller exists.
C36_Witness ==
    /\ server.phase = "failed"
    /\ server.created = <<"database", "bridge", "bot">>
    /\ db.isInitialized /\ isInitialized
    /\ web = NoWeb

\* The latest setConfig on the key gave a value of the type it declared.
WellTyped(key) == db.given[key].value.t = db.given[key].type

\* C37: re-running initialize() never overwrites configuration: after it,
\* getConfig(key) on a seeded key that setConfig(key, v, type) was called on
\* returns v, and every row the table held is as it was.
C37_SeedKeepsGivenValue ==
    /\ []((lastOp.op = "database.initialize" /\ lastOp.error = "")
              => \A key \in DOMAIN db.given \cap DOMAIN Seeds :
                     getConfig(db, key) = db.given[key].value)
    /\ [][(lastOp'.op = "database.initialize" /\ lastOp'.error = "")
              => \A key \in DOMAIN db.configurations :
                     db'.configurations[key] = db.configurations[key]]_vars

\* C37, amended: initialize() leaves every row of the table as it was and
\* adds the seed row of every seeded key that had none, so getConfig(key)
\* returns after it what it returned before; where setConfig(key, v, type)
\* was called with a v of the type it declared, that is v.
C37_SeedKeepsStoredValue ==
    /\ []((lastOp.op \in {"database.initialize", "getConfig"} /\ lastOp.error = "")
              => \A key \in DOMAIN db.given :
                     WellTyped(key) => getConfig(db, key) = db.given[key].value)
    /\ [][(lastOp'.op = "database.initialize" /\ lastOp'.error = "")
              => /\ \A key \in DOMAIN db.configurations :
                        /\ db'.configurations[key] = db.configurations[key]
                        /\ getConfig(db', key) = getConfig(db, key)
                 /\ DOMAIN db'.configurations = DOMAIN db.configurations \cup DOMAIN Seeds
                 /\ \A key \in DOMAIN Seeds \ DOMAIN db.configurations :
                        db'.configurations[key] = Seeds[key]]_vars

\* C37 witness: initialize() has run again, in a new process, after
\* setConfig('max_connections', 20, 'number'), and getConfig returns 20.
C37_Witness ==
    /\ lastOp.op = "database.initialize" /\ lastOp.error = ""
    /\ "max_connections" \in DOMAIN db.given
    /\ db.given["max_connections"] = Row(Js("number", "20"), "number")
    /\ getConfig(db, "max_connections") = Js("number", "20")
    /\ getConfig(db, "max_connections") # parseFloat(Seeds["max_connections"].value)
====
